---------------------------- MODULE Spec2Model ----------------------------
(***************************************************************************)
(* A model of sql-lsp (src/sql_lsp): the cursor resolver, the alias        *)
(* resolver, the candidate aggregator, the statement extractor, the schema *)
(* cache of the MySQL connector and the command handlers of the server.    *)
(*                                                                         *)
(* Text is a sequence of one-character strings, so that prefix matching,   *)
(* lower-casing and the last-word regular expression are computed.  A      *)
(* Python dict is a sequence of [k, v] pairs in insertion order.  A Python *)
(* call that may raise returns a record with the field "raised" holding    *)
(* the exception's name ("None" when it returned).                         *)
(***************************************************************************)
EXTENDS Integers, Sequences, FiniteSets, TLC

VARIABLES
    available_connections,  \* SqlLanguageServerProtocol.available_connections
    dbconn,                 \* SqlLanguageServerProtocol.dbconn
    document,               \* the workspace's text document, as parsed
    request,                \* the request being answered (its inputs)
    response,               \* what the handler returned or raised
    building                \* the DBConnection under construction, and how far it is

vars == <<available_connections, dbconn, document, request, response, building>>

(***************************************************************************)
(* Bounds of the model.                                                    *)
(***************************************************************************)
MaxSegs == 4        \* tokens of a document of the cursor-resolver runs
MaxLine == 3        \* lines (1-based) those tokens lie on
MaxCol == 3         \* columns (1-based) those tokens lie on
MaxFrom == 2        \* FROM-clause elements of a document of the alias-resolver runs
MaxFailAfter == 1   \* rows a failing query hands over before it fails

(***************************************************************************)
(* Python helpers.                                                         *)
(***************************************************************************)
\* seq[i] for a 0-based Python index, negative indexes counting from the end
PyInRange(seq, i) == (-Len(seq)) <= i /\ i < Len(seq)

PyIndex(seq, i) == IF i >= 0 THEN seq[i + 1] ELSE seq[Len(seq) + i + 1]

\* seq[a:b] for 0 <= a, 0 <= b
PySlice(seq, a, b) ==
    LET hi == IF b > Len(seq) THEN Len(seq) ELSE b
    IN  IF a >= hi THEN <<>> ELSE SubSeq(seq, a + 1, hi)

\* bisect.bisect_left(a, x, key=...) over the keys of a: the binary search
RECURSIVE BisectLoop(_, _, _, _)
BisectLoop(keys, x, lo, hi) ==
    IF lo < hi
    THEN LET mid == (lo + hi) \div 2
         IN  IF keys[mid + 1] < x
             THEN BisectLoop(keys, x, mid + 1, hi)
             ELSE BisectLoop(keys, x, lo, mid)
    ELSE lo

bisect_left(keys, x) == BisectLoop(keys, x, 0, Len(keys))

(***************************************************************************)
(* Raw segments (sqlfluff's leaf tokens): the text, the 1-based position   *)
(* marker and the kind of the immediate parent.                            *)
(***************************************************************************)
NoSegment == [raw |-> <<"None">>, line_no |-> 0, line_pos |-> 0, parent |-> "None"]

\* the value None of SqlLanguageServerProtocol.dbconn
NoConnection ==
    [config |-> [driver |-> "None", host |-> "None", database |-> "None"],
     connector |-> [help_cache |-> <<>>, table_cache |-> <<>>, table_column_map |-> <<>>,
                    column_cache |-> <<>>]]

\* no DBConnection is under construction
NotBuilding ==
    [pc |-> "idle",
     config |-> [driver |-> "None", host |-> "None", database |-> "None"],
     connector |-> [help_cache |-> <<>>, table_cache |-> <<>>, table_column_map |-> <<>>,
                    column_cache |-> <<>>]]

LineNos(segments) == [i \in 1..Len(segments) |-> segments[i].line_no]

LinePoss(segments) == [i \in 1..Len(segments) |-> segments[i].line_pos]

(***************************************************************************)
(* completion.py, get_segment_at_point.  The for loop leaves i at the      *)
(* index of the first token of another line, or at the last index when no  *)
(* token of another line follows, and leaves i unbound when the range is   *)
(* empty.                                                                  *)
(***************************************************************************)
RECURSIVE LineScan(_, _, _)
LineScan(segments, line, i) ==
    IF segments[i + 1].line_no # line \/ i = Len(segments) - 1
    THEN i
    ELSE LineScan(segments, line, i + 1)

get_segment_at_point(segments, pos) ==
    LET line_start_idx == bisect_left(LineNos(segments), pos.line + 1)
    IN  IF segments = <<>>
        THEN [raised |-> "None", segment |-> NoSegment, index |-> 0]
        ELSE IF line_start_idx >= Len(segments)
        THEN [raised |-> "UnboundLocalError", segment |-> NoSegment, index |-> 0]
        ELSE LET line_end_idx == LineScan(segments, pos.line + 1, line_start_idx)
                 line_segments == PySlice(segments, line_start_idx, line_end_idx)
                 segment_idx ==
                     IF Len(line_segments) # 1
                     THEN bisect_left(LinePoss(line_segments), pos.character + 1) - 1
                     ELSE 0
             IN  IF PyInRange(line_segments, segment_idx)
                 THEN [raised |-> "None",
                       segment |-> PyIndex(line_segments, segment_idx),
                       index |-> line_start_idx + segment_idx]
                 ELSE [raised |-> "IndexError", segment |-> NoSegment, index |-> 0]

(***************************************************************************)
(* The documents of the cursor-resolver runs: every sequence of at most    *)
(* MaxSegs tokens at distinct positions, sorted by (line_no, line_pos), as *)
(* BaseSegment.get_raw_segments returns them.                              *)
(***************************************************************************)
Positions == (1..MaxLine) \X (1..MaxCol)

Before(p, q) == p[1] < q[1] \/ (p[1] = q[1] /\ p[2] < q[2])

RECURSIVE SortedSeq(_)
SortedSeq(S) ==
    IF S = {}
    THEN <<>>
    ELSE LET first == CHOOSE p \in S : \A q \in S \ {p} : Before(p, q)
         IN  <<first>> \o SortedSeq(S \ {first})

PlainSegment(p) == [raw |-> <<"x">>, line_no |-> p[1], line_pos |-> p[2], parent |-> "other"]

PlainSegments(S) == LET ps == SortedSeq(S) IN [i \in 1..Len(ps) |-> PlainSegment(ps[i])]

ResolverDocuments ==
    { [lines |-> <<>>, segments |-> PlainSegments(S), from_elements |-> <<>>,
       statements |-> <<>>] : S \in {T \in SUBSET Positions : Cardinality(T) <= MaxSegs} }

\* lsprotocol Position: 0-based line and character
ResolverCursors == [line : 0..MaxLine, character : 0..(MaxCol + 1)]

NoRequest == [op |-> "None"]

NoResponse == [raised |-> "None"]

(***************************************************************************)
(* The cursor resolver applied to a document and a cursor.                 *)
(***************************************************************************)
InitResolver ==
    /\ available_connections = <<>>
    /\ dbconn = NoConnection
    /\ document \in ResolverDocuments
    /\ request = NoRequest
    /\ response = NoResponse
    /\ building = NotBuilding

ResolveSegment(pos) ==
    /\ request = NoRequest
    /\ request' = [op |-> "get_segment_at_point", pos |-> pos]
    /\ response' = get_segment_at_point(document.segments, pos)
    /\ UNCHANGED <<available_connections, dbconn, document, building>>

NextResolver == \E pos \in ResolverCursors : ResolveSegment(pos)

SpecResolver == InitResolver /\ [][NextResolver]_vars

(***************************************************************************)
(* What the cursor line holds, for the statements about the resolver.      *)
(***************************************************************************)
Resolved == request.op = "get_segment_at_point"

CursorLineIdx ==
    { i \in 1..Len(document.segments) : document.segments[i].line_no = request.pos.line + 1 }

\* the tokens of the cursor line at or before the cursor: 1-based column
\* not exceeding the 0-based character
AtOrBeforeCursor ==
    { i \in CursorLineIdx : ~(document.segments[i].line_pos > request.pos.character) }

\* C5: get_segment_at_point returns without raising for every sorted token
\* sequence and cursor; an empty sequence gives (None, 0); a cursor line
\* without tokens gives no token.
C5_ResolverNeverRaises ==
    Resolved =>
        /\ response.raised = "None"
        /\ document.segments = <<>> =>
               (response.segment = NoSegment /\ response.index = 0)
        /\ CursorLineIdx = {} => response.segment = NoSegment

\* C6: on a line holding exactly one token the resolver returns that token
\* for every character offset, also when it is the last token of all.
C6_SingleTokenLine ==
    (Resolved /\ Cardinality(CursorLineIdx) = 1) =>
        /\ response.raised = "None"
        /\ \A i \in CursorLineIdx : response.segment = document.segments[i]

\* C7: on a line holding two or more tokens the resolver returns the token
\* just before the first one whose column exceeds the cursor's character,
\* the last token of the line when none exceeds it; on every line.
C7_MultiTokenLine ==
    (Resolved /\ Cardinality(CursorLineIdx) >= 2 /\ AtOrBeforeCursor # {}) =>
        /\ response.raised = "None"
        /\ \A i \in AtOrBeforeCursor :
               (\A j \in AtOrBeforeCursor : j <= i) =>
                   response.segment = document.segments[i]

\* C19: whenever the resolver returns a token, the index it returns with it
\* is that token's place in the sequence: segments[index] is the token.
C19_IndexOfReturnedToken ==
    (Resolved /\ response.raised = "None" /\ response.segment # NoSegment) =>
        /\ PyInRange(document.segments, response.index)
        /\ PyIndex(document.segments, response.index) = response.segment

(***************************************************************************)
(* Names, as sequences of characters.                                      *)
(***************************************************************************)
users == <<"u", "s", "e", "r", "s">>

orders == <<"o", "r", "d", "e", "r", "s">>

shop == <<"s", "h", "o", "p">>

alias_u == <<"u">>

alias_o == <<"o">>

(***************************************************************************)
(* completion.py, _get_alias_table_name.  from_elements is what            *)
(* get_json_segment yields for "from_expression_element", in document      *)
(* order; an element is [alias, idents]: the naked identifier of its       *)
(* alias_expression ("" when it has none) and the naked identifiers found  *)
(* in its table_expression.                                                *)
(***************************************************************************)
RECURSIVE AliasLoop(_, _, _)
AliasLoop(alias, from_elements, i) ==
    IF i > Len(from_elements)
    THEN [raised |-> "None", table_name |-> <<"None">>]
    ELSE LET element == from_elements[i]
             guessed_alias == element.alias
         IN  IF guessed_alias = alias
             THEN IF element.idents = <<>>
                  THEN [raised |-> "IndexError", table_name |-> <<"None">>]
                  ELSE [raised |-> "None",
                        table_name |-> PyIndex(element.idents, -1)]
             ELSE AliasLoop(alias, from_elements, i + 1)

\* a resolver that keeps searching and returns the last element carrying the alias
RECURSIVE AliasLoopLast(_, _, _, _)
AliasLoopLast(alias, from_elements, i, found) ==
    IF i > Len(from_elements)
    THEN found
    ELSE LET element == from_elements[i]
         IN  IF element.alias = alias
             THEN AliasLoopLast(alias, from_elements, i + 1,
                      IF element.idents = <<>>
                      THEN [raised |-> "IndexError", table_name |-> <<"None">>]
                      ELSE [raised |-> "None", table_name |-> PyIndex(element.idents, -1)])
             ELSE AliasLoopLast(alias, from_elements, i + 1, found)

_get_alias_table_name_last(alias, from_elements) ==
    AliasLoopLast(alias, from_elements, 1, [raised |-> "None", table_name |-> <<"None">>])

_get_alias_table_name(alias, from_elements) == AliasLoop(alias, from_elements, 1)

(***************************************************************************)
(* The alias resolver applied to an alias and the FROM-clause elements of  *)
(* a parsed query.                                                         *)
(***************************************************************************)
FromElements ==
    [alias : {<<>>, alias_u, alias_o}, idents : {<<>>, <<users>>, <<shop, orders>>}]

RECURSIVE SeqsUpTo(_, _)
SeqsUpTo(S, n) ==
    IF n = 0
    THEN {<<>>}
    ELSE LET shorter == SeqsUpTo(S, n - 1)
         IN  shorter \cup {Append(q, e) : q \in {r \in shorter : Len(r) = n - 1}, e \in S}

AliasDocuments ==
    { [lines |-> <<>>, segments |-> <<>>, from_elements |-> f, statements |-> <<>>] :
        f \in SeqsUpTo(FromElements, MaxFrom) }

InitAlias ==
    /\ available_connections = <<>>
    /\ dbconn = NoConnection
    /\ document \in AliasDocuments
    /\ request = NoRequest
    /\ response = NoResponse
    /\ building = NotBuilding

ResolveAlias(alias) ==
    /\ request = NoRequest
    /\ request' = [op |-> "_get_alias_table_name", alias |-> alias]
    /\ response' = _get_alias_table_name(alias, document.from_elements)
    /\ UNCHANGED <<available_connections, dbconn, document, building>>

NextAlias == \E alias \in {alias_u, alias_o} : ResolveAlias(alias)

SpecAlias == InitAlias /\ [][NextAlias]_vars

AliasResolved == request.op = "_get_alias_table_name"

\* the FROM-clause elements whose alias identifier equals the extracted alias
AliasMatches ==
    { i \in 1..Len(document.from_elements) :
        document.from_elements[i].alias = request.alias }

\* C3 as stated: with several elements carrying the alias, the table
\* identifier of the last of them in document order is returned.
C3_LastMatchingElement ==
    (/\ AliasResolved
     /\ Cardinality(AliasMatches) >= 2
     /\ \A i \in AliasMatches : document.from_elements[i].idents # <<>>) =>
        \A i \in AliasMatches :
            (\A j \in AliasMatches : j <= i) =>
                /\ response.raised = "None"
                /\ response.table_name = PyIndex(document.from_elements[i].idents, -1)

\* C3 amended: with several elements carrying the alias, the table identifier
\* of the first of them in document order is returned (IndexError when that
\* element's table expression holds no identifier).
C3_FirstMatchingElement ==
    (AliasResolved /\ Cardinality(AliasMatches) >= 2) =>
        \A i \in AliasMatches :
            (\A j \in AliasMatches : i <= j) =>
                IF document.from_elements[i].idents = <<>>
                THEN response.raised = "IndexError"
                ELSE /\ response.raised = "None"
                     /\ response.table_name = PyIndex(document.from_elements[i].idents, -1)

\* two elements carry the alias, name different tables, and the first one's
\* table came back
C3_Witness ==
    /\ AliasResolved
    /\ Cardinality(AliasMatches) >= 2
    /\ \E i, j \in AliasMatches :
           /\ i < j
           /\ document.from_elements[i].idents = <<users>>
           /\ document.from_elements[j].idents = <<shop, orders>>
    /\ response.raised = "None"
    /\ response.table_name = users

(***************************************************************************)
(* Text: characters, lower-casing, the regular expressions of              *)
(* completion.py.                                                          *)
(***************************************************************************)
Lower(c) ==
    CASE c = "N" -> "n"
      [] c = "O" -> "o"
      [] c = "W" -> "w"
      [] c = "U" -> "u"
      [] c = "S" -> "s"
      [] c = "E" -> "e"
      [] OTHER -> c

str_lower(word) == [i \in 1..Len(word) |-> Lower(word[i])]

\* a character matched by [\w`]
IsWordChar(c) == c \notin {" ", ".", ",", ";", "*", "\n"}

\* the longest trailing run of word characters of text ([\w`]+$)
RECURSIVE TrailingWord(_)
TrailingWord(text) ==
    IF text = <<>> \/ ~IsWordChar(text[Len(text)])
    THEN <<>>
    ELSE Append(TrailingWord(SubSeq(text, 1, Len(text) - 1)), text[Len(text)])

get_last_word(lines, pos) ==
    IF pos.line >= Len(lines)
    THEN [raised |-> "IndexError", last_word |-> <<>>]
    ELSE LET line == PySlice(lines[pos.line + 1], 0, pos.character)
             word_matches == TrailingWord(line)
         IN  [raised |-> "None",
              last_word |-> IF word_matches # <<>> THEN word_matches ELSE <<"*">>]

\* re.compile(last_word, re.IGNORECASE): a pattern of word characters and
\* backticks is a literal; the pattern "*" has nothing to repeat
re_compile(last_word) ==
    IF last_word[1] = "*"
    THEN [raised |-> "re.error", pattern |-> <<>>]
    ELSE [raised |-> "None", pattern |-> last_word]

\* re.search(match_regex, name): the literal, ignoring case, anywhere in name
re_search(pattern, name) ==
    \E k \in 0..(Len(name) - Len(pattern)) :
        \A i \in 1..Len(pattern) : Lower(pattern[i]) = Lower(name[k + i])

\* re.match(match_regex, name): the literal, ignoring case, at the start of name
re_match(pattern, name) ==
    /\ Len(pattern) <= Len(name)
    /\ \A i \in 1..Len(pattern) : Lower(pattern[i]) = Lower(name[i])

(***************************************************************************)
(* Python dicts: [k, v] pairs in insertion order.                          *)
(***************************************************************************)
DictHas(d, k) == \E i \in 1..Len(d) : d[i].k = k

DictGet(d, k, default) ==
    IF DictHas(d, k) THEN d[CHOOSE i \in 1..Len(d) : d[i].k = k].v ELSE default

DictSet(d, k, v) ==
    IF DictHas(d, k)
    THEN [i \in 1..Len(d) |-> IF d[i].k = k THEN [k |-> k, v |-> v] ELSE d[i]]
    ELSE Append(d, [k |-> k, v |-> v])

DictKeys(d) == [i \in 1..Len(d) |-> d[i].k]

DictValues(d) == [i \in 1..Len(d) |-> d[i].v]

(***************************************************************************)
(* The database servers the configured connections reach: the rows of      *)
(* INFORMATION_SCHEMA.COLUMNS (every schema of the server) and of          *)
(* mysql.help_topic.                                                       *)
(***************************************************************************)
col_id == <<"i", "d">>

col_name == <<"n", "a", "m", "e">>

col_note == <<"n", "o", "t", "e">>

crm == <<"c", "r", "m">>

leads == <<"l", "e", "a", "d", "s">>

ColumnRow(schema, table, column) ==
    [TABLE_SCHEMA |-> schema, TABLE_NAME |-> table, COLUMN_NAME |-> column]

InformationSchemaColumns(host) ==
    IF host = "db1"
    THEN << ColumnRow(shop, orders, col_id), ColumnRow(shop, orders, col_note),
            ColumnRow(shop, users, col_id), ColumnRow(shop, users, col_name) >>
    ELSE << ColumnRow(crm, leads, col_id), ColumnRow(crm, leads, col_note) >>

HelpTopics(host) ==
    IF host = "db1"
    THEN << [NAME |-> <<"N", "O", "W">>, DESCRIPTION |-> "help:NOW"],
            [NAME |-> <<"U", "S", "E">>, DESCRIPTION |-> "help:USE"] >>
    ELSE << [NAME |-> <<"U", "S", "E">>, DESCRIPTION |-> "help:USE (MariaDB)"] >>

\* the rows a statement of the editor yields
StatementRows(query) == << [n |-> 1, of |-> query], [n |-> 2, of |-> query] >>

(***************************************************************************)
(* How a query ends: failed_after = -1 when it runs to its end, else the   *)
(* number of rows the cursor handed over before connection.reconnect(),    *)
(* crsr.execute or the iteration raised; reconnect_ok tells whether        *)
(* connection.reconnect(attempts=2) of the handler succeeds.               *)
(***************************************************************************)
QueryOutcomes ==
    [failed_after : {-1}, reconnect_ok : {TRUE}]
        \cup [failed_after : 0..MaxFailAfter, reconnect_ok : {TRUE}]
        \cup [failed_after : {0}, reconnect_ok : {FALSE}]

QueryOk == [failed_after |-> -1, reconnect_ok |-> TRUE]

\* mysql_connector.py, MySQLConnector.execute_query
MySQLConnector_execute_query(result_rows, outcome) ==
    IF outcome.failed_after = -1
    THEN [raised |-> "None", rows |-> result_rows, error |-> "None"]
    ELSE IF ~outcome.reconnect_ok
    THEN [raised |-> "InterfaceError", rows |-> <<>>, error |-> "None"]
    ELSE [raised |-> "None",
          rows |-> PySlice(result_rows, 0, outcome.failed_after),
          error |-> "DatabaseError"]

\* database.py, DBConnection.execute_query
DBConnection_execute_query(result_rows, outcome) ==
    MySQLConnector_execute_query(result_rows, outcome)

(***************************************************************************)
(* mysql_connector.py, the three reads of generate_caches.                 *)
(***************************************************************************)
RECURSIVE HelpLoop(_, _)
HelpLoop(rows, help_cache) ==
    IF rows = <<>>
    THEN help_cache
    ELSE HelpLoop(Tail(rows),
                  DictSet(help_cache, str_lower(Head(rows).NAME), Head(rows).DESCRIPTION))

_get_help_documentation(host) == HelpLoop(HelpTopics(host), <<>>)

\* schema_table_columns[row["TABLE_SCHEMA"]][row["TABLE_NAME"]].append(...)
RECURSIVE GroupLoop(_, _)
GroupLoop(rows, schema_table_columns) ==
    IF rows = <<>>
    THEN schema_table_columns
    ELSE LET row == Head(rows)
             schema_tables == DictGet(schema_table_columns, row.TABLE_SCHEMA, <<>>)
             table_columns == DictGet(schema_tables, row.TABLE_NAME, <<>>)
         IN  GroupLoop(Tail(rows),
                 DictSet(schema_table_columns, row.TABLE_SCHEMA,
                     DictSet(schema_tables, row.TABLE_NAME,
                         Append(table_columns, row.COLUMN_NAME))))

RECURSIVE TableLoop(_, _)
TableLoop(schema_tables, table_cache) ==
    IF schema_tables = <<>>
    THEN table_cache
    ELSE LET table_name == Head(schema_tables).k
             table_columns == Head(schema_tables).v
         IN  TableLoop(Tail(schema_tables),
                 DictSet(table_cache, table_name,
                     [name |-> table_name, description |-> table_columns]))

RECURSIVE SchemaLoop(_, _)
SchemaLoop(schemas, table_cache) ==
    IF schemas = <<>>
    THEN table_cache
    ELSE SchemaLoop(Tail(schemas), TableLoop(Head(schemas), table_cache))

\* result is what execute_query returned: [raised, rows, error]
_get_schema_tables(result) ==
    LET query_results == IF result.rows # <<>> THEN result.rows ELSE <<>>
        schema_table_columns == GroupLoop(query_results, <<>>)
    IN  SchemaLoop(DictValues(schema_table_columns), <<>>)

ColumnInfo(row) == [name |-> row.COLUMN_NAME, table_name |-> row.TABLE_NAME]

RECURSIVE ColumnLoop(_, _)
ColumnLoop(rows, caches) ==
    IF rows = <<>>
    THEN caches
    ELSE LET row == Head(rows)
             table_columns == DictGet(caches.table_column_map, row.TABLE_NAME, <<>>)
         IN  ColumnLoop(Tail(rows),
                 [column_cache |->
                      DictSet(caches.column_cache, row.COLUMN_NAME, ColumnInfo(row)),
                  table_column_map |->
                      DictSet(caches.table_column_map, row.TABLE_NAME,
                          DictSet(table_columns, row.COLUMN_NAME, ColumnInfo(row)))])

_get_all_columns(result) ==
    ColumnLoop(result.rows, [column_cache |-> <<>>, table_column_map |-> <<>>])

(***************************************************************************)
(* mysql_connector.py, MySQLConnector.__init__ and generate_caches.        *)
(* build tells how the connection and the three reads end: connect_ok,     *)
(* help_ok, and the outcomes of the two INFORMATION_SCHEMA queries.        *)
(***************************************************************************)
\* a read that is not reached (an earlier one raised) is written as QueryOk
BuildOutcomes ==
    { b \in [connect_ok : BOOLEAN, help_ok : BOOLEAN,
             tables : QueryOutcomes, columns : QueryOutcomes] :
        /\ ~b.connect_ok => b.help_ok
        /\ (~b.connect_ok \/ ~b.help_ok) => b.tables = QueryOk
        /\ (~b.connect_ok \/ ~b.help_ok \/ ~b.tables.reconnect_ok) => b.columns = QueryOk }

BuildOk == [connect_ok |-> TRUE, help_ok |-> TRUE, tables |-> QueryOk, columns |-> QueryOk]

NoConnector ==
    [help_cache |-> <<>>, table_cache |-> <<>>, table_column_map |-> <<>>,
     column_cache |-> <<>>]

MySQLConnector_init(config, build) ==
    LET tables_result ==
            MySQLConnector_execute_query(InformationSchemaColumns(config.host), build.tables)
        columns_result ==
            MySQLConnector_execute_query(InformationSchemaColumns(config.host), build.columns)
    IN  IF ~build.connect_ok
        THEN [raised |-> "DatabaseError", connector |-> NoConnector]
        ELSE IF ~build.help_ok
        THEN [raised |-> "DatabaseError", connector |-> NoConnector]
        ELSE IF tables_result.raised # "None"
        THEN [raised |-> tables_result.raised, connector |-> NoConnector]
        ELSE IF columns_result.raised # "None"
        THEN [raised |-> columns_result.raised, connector |-> NoConnector]
        ELSE [raised |-> "None",
              connector |->
                  [help_cache |-> _get_help_documentation(config.host),
                   table_cache |-> _get_schema_tables(tables_result),
                   table_column_map |-> _get_all_columns(columns_result).table_column_map,
                   column_cache |-> _get_all_columns(columns_result).column_cache]]

\* database.py, DBConnection.__init__
DBConnection_init(config, build) ==
    IF config.driver \in {"mysql", "mariadb"}
    THEN LET made == MySQLConnector_init(config, build)
         IN  [raised |-> made.raised,
              conn |-> [config |-> config, connector |-> made.connector]]
    ELSE [raised |-> "ValueError",
          conn |-> [config |-> config, connector |-> NoConnector]]

\* mysql_connector.py, MySQLConnector.get_help / get_tables / get_columns
MySQLConnector_get_help(connector, function) ==
    DictGet(connector.help_cache, str_lower(function), "")

MySQLConnector_get_tables(connector) == DictValues(connector.table_cache)

\* table_name is "" (the default) or a name or None; "" and None are falsy
MySQLConnector_get_columns(connector, table_name) ==
    IF table_name \notin {<<>>, <<"None">>}
    THEN DictValues(DictGet(connector.table_column_map, table_name, <<>>))
    ELSE DictValues(connector.column_cache)

\* database.py, DBConnection.get_help / get_tables / get_columns: get_columns
\* calls the connector's get_columns without the table name
DBConnection_get_help(conn, function) == MySQLConnector_get_help(conn.connector, function)

DBConnection_get_tables(conn) == MySQLConnector_get_tables(conn.connector)

DBConnection_get_columns(conn, table_name) ==
    MySQLConnector_get_columns(conn.connector, <<>>)

(***************************************************************************)
(* Parsed documents.  A document is written as its lines of tokens         *)
(* [raw, parent]; the text of a line is the tokens' text, a token's        *)
(* position is where its text starts, every line but the last ends with a  *)
(* newline token and the last with the zero-width end-of-file token, as    *)
(* sqlfluff's lexer lays them out.  pygls keeps the line ends in           *)
(* TextDocument.lines.                                                     *)
(***************************************************************************)
Tok(raw, parent) == [raw |-> raw, parent |-> parent]

RECURSIVE Concat(_)
Concat(seqs) == IF seqs = <<>> THEN <<>> ELSE Head(seqs) \o Concat(Tail(seqs))

Raws(tokens) == [i \in 1..Len(tokens) |-> tokens[i].raw]

\* the tokens of line number n, the line end or the end of file included
LineTokens(token_lines, n) ==
    Append(token_lines[n],
           IF n < Len(token_lines) THEN Tok(<<"\n">>, "other") ELSE Tok(<<>>, "other"))

LineText(token_lines, n) == Concat(Raws(LineTokens(token_lines, n)))

LineSegments(token_lines, n) ==
    LET tokens == LineTokens(token_lines, n)
    IN  [i \in 1..Len(tokens) |->
            [raw |-> tokens[i].raw,
             line_no |-> n,
             line_pos |-> 1 + Len(Concat(Raws(SubSeq(tokens, 1, i - 1)))),
             parent |-> tokens[i].parent]]

\* a top-level statement, from its first to its last raw segment (0-based
\* indexes into segments): what get_start_loc, get_end_loc and raw give
StatementOf(segments, range) ==
    LET first == segments[range[1] + 1]
        last == segments[range[2] + 1]
    IN  [start_line |-> first.line_no, start_pos |-> first.line_pos,
         end_line |-> last.line_no, end_pos |-> last.line_pos + Len(last.raw) - 1,
         raw |-> Concat(Raws(SubSeq(segments, range[1] + 1, range[2] + 1)))]

MakeDocument(token_lines, from_elements, statement_ranges) ==
    LET segments == Concat([n \in 1..Len(token_lines) |-> LineSegments(token_lines, n)])
    IN  [lines |-> [n \in 1..Len(token_lines) |-> LineText(token_lines, n)],
         segments |-> segments,
         from_elements |-> from_elements,
         statements |-> [i \in 1..Len(statement_ranges) |->
                            StatementOf(segments, statement_ranges[i])]]

kw_select == Tok(<<"s", "e", "l", "e", "c", "t">>, "other")

kw_from == Tok(<<"f", "r", "o", "m">>, "other")

kw_as == Tok(<<"a", "s">>, "other")

ws == Tok(<<" ">>, "other")

ColumnToken(raw) == Tok(raw, "column_reference")

TableToken(raw) == Tok(raw, "table_reference")

\* "users as u": the tokens and the from_expression_element of the record
FromElementTokens(element) ==
    << TableToken(element.idents[1]), ws, kw_as, ws, Tok(element.alias, "other") >>

RECURSIVE FromListTokens(_)
FromListTokens(elements) ==
    IF Len(elements) = 1
    THEN FromElementTokens(elements[1])
    ELSE FromElementTokens(elements[1]) \o << Tok(<<",">>, "other"), ws >>
             \o FromListTokens(Tail(elements))

\* select <qualifier>.<word> from <table> as <alias>, ...   on one line, or
\* with the FROM clause on a line of its own
QualifiedDocument(qualifier, word, elements, two_lines) ==
    LET select_tokens ==
            << kw_select, ws, ColumnToken(qualifier), ColumnToken(<<".">>), ColumnToken(word) >>
        from_tokens == << kw_from, ws >> \o FromListTokens(elements)
        count == Len(select_tokens) + 1 + Len(from_tokens)
    IN  MakeDocument(
            IF two_lines
            THEN << select_tokens, from_tokens >>
            ELSE << select_tokens \o <<ws>> \o from_tokens >>,
            elements,
            << <<0, count - 1>> >>)

\* select <word> from <table>
UnqualifiedDocument(word, table) ==
    MakeDocument(
        << << kw_select, ws, ColumnToken(word), ws, kw_from, ws, TableToken(table) >> >>,
        << [alias |-> <<>>, idents |-> <<table>>] >>,
        << <<0, 6>> >>)

\* select * from <word>
TableDocument(word) ==
    MakeDocument(
        << << kw_select, ws, Tok(<<"*">>, "other"), ws, kw_from, ws, TableToken(word) >> >>,
        << [alias |-> <<>>, idents |-> <<word>>] >>,
        << <<0, 6>> >>)

\* <word>: the start of a statement, no reference around it
BareDocument(word) ==
    MakeDocument(<< << Tok(word, "other") >> >>, <<>>, << <<0, 0>> >>)

FromLists ==
    { << [alias |-> alias_u, idents |-> <<users>>] >>,
      << [alias |-> alias_u, idents |-> <<users>>], [alias |-> alias_o, idents |-> <<orders>>] >>,
      << [alias |-> alias_u, idents |-> <<leads>>] >>,
      << [alias |-> alias_o, idents |-> <<orders>>], [alias |-> alias_o, idents |-> <<users>>] >> }

PartialWords == { <<"n">>, <<"N", "o">>, <<"i">> }

CompletionDocuments ==
    { QualifiedDocument(q, w, f, l) :
        q \in {alias_u, alias_o}, w \in PartialWords, f \in FromLists, l \in BOOLEAN }
    \cup { UnqualifiedDocument(w, users) : w \in PartialWords }
    \cup { TableDocument(w) : w \in {<<"u">>, <<"O", "r">>, <<"o">>} }
    \cup { BareDocument(w) : w \in {<<"u">>, <<"N">>} }

\* the cursors an editor sends for a document: a line of it and a character
\* of that line, its end included
LineLength(doc, line) ==
    IF line + 1 < Len(doc.lines)
    THEN Len(doc.lines[line + 1]) - 1
    ELSE Len(doc.lines[line + 1])

Cursors(doc) ==
    UNION { [line : {line}, character : 0..LineLength(doc, line)] :
              line \in 0..(Len(doc.lines) - 1) }

(***************************************************************************)
(* completion.py, get_completion_candidates.                               *)
(***************************************************************************)
ColumnItem(col) ==
    [label |-> col.name, kind |-> "Field", detail |-> col.table_name, sort_text |-> "0"]

TableItem(table) ==
    [label |-> table.name, kind |-> "Field", detail |-> <<"(table)">>, sort_text |-> "1"]

KeywordItem(word) ==
    [label |-> word, kind |-> "Keyword", detail |-> <<>>, sort_text |-> "99"]

ColumnItems(columns, match_regex) ==
    LET matches(col) == re_match(match_regex, col.name)
        kept == SelectSeq(columns, matches)
    IN  [i \in 1..Len(kept) |-> ColumnItem(kept[i])]

\* the table candidates without the test against the partial word
TableItemsUnfiltered(tables, match_regex) ==
    [i \in 1..Len(tables) |-> TableItem(tables[i])]

TableItems(tables, match_regex) ==
    LET matches(table) == re_match(match_regex, table.name)
        kept == SelectSeq(tables, matches)
    IN  [i \in 1..Len(kept) |-> TableItem(kept[i])]

KeywordItems(keywords, match_regex) ==
    LET matches(word) == re_match(match_regex, word)
        candidate_words == SelectSeq(DictKeys(keywords), matches)
    IN  [i \in 1..Len(candidate_words) |-> KeywordItem(candidate_words[i])]

Raised(name) == [raised |-> name, items |-> <<>>]

\* candidates.extend(items) that puts the new candidates in front
ExtendFront(candidates, items) == items \o candidates

\* candidates.extend(items)
Extend(candidates, items) == candidates \o items

\* case ColumnReferenceSegment(): the columns, or the exception of a lookup
ColumnCase(doc, segment_id, conn) ==
    LET segments == doc.segments
    IN  IF ~PyInRange(segments, segment_id) \/ ~PyInRange(segments, segment_id - 1)
        THEN [raised |-> "IndexError", columns |-> <<>>]
        ELSE LET curr_seg == PyIndex(segments, segment_id).raw
                 prev_seg == PyIndex(segments, segment_id - 1).raw
             IN  IF curr_seg = <<".">> \/ prev_seg = <<".">>
                 THEN IF ~PyInRange(segments, segment_id - 2)
                      THEN [raised |-> "IndexError", columns |-> <<>>]
                      ELSE LET alias == IF curr_seg = <<".">>
                                        THEN PyIndex(segments, segment_id - 1)
                                        ELSE PyIndex(segments, segment_id - 2)
                               found == _get_alias_table_name(alias.raw, doc.from_elements)
                           IN  IF found.raised # "None"
                               THEN [raised |-> found.raised, columns |-> <<>>]
                               ELSE [raised |-> "None",
                                     columns |-> DBConnection_get_columns(conn, found.table_name)]
                 ELSE [raised |-> "None",
                       columns |-> DBConnection_get_columns(conn, <<"None">>)]

get_completion_candidates(doc, pos, conn) ==
    IF conn = NoConnection
    THEN Raised("AttributeError")
    ELSE LET keywords == conn.connector.help_cache
             word == get_last_word(doc.lines, pos)
             compiled == re_compile(word.last_word)
             match_regex == compiled.pattern
             at_point == get_segment_at_point(doc.segments, pos)
             current_segment == at_point.segment
             segment_id == at_point.index
             columns == ColumnCase(doc, segment_id, conn)
         IN  IF word.raised # "None" THEN Raised(word.raised)
             ELSE IF compiled.raised # "None" THEN Raised(compiled.raised)
             ELSE IF at_point.raised # "None" THEN Raised(at_point.raised)
             ELSE IF current_segment = NoSegment
             THEN [raised |-> "None", items |-> <<>>]
             ELSE IF current_segment.parent = "column_reference"
             THEN IF columns.raised # "None"
                  THEN Raised(columns.raised)
                  ELSE [raised |-> "None",
                        items |-> Extend(Extend(<<>>,
                                      ColumnItems(columns.columns, match_regex)),
                                      KeywordItems(keywords, match_regex))]
             ELSE IF current_segment.parent = "table_reference"
             THEN [raised |-> "None",
                   items |-> Extend(Extend(<<>>,
                                 TableItems(DBConnection_get_tables(conn), match_regex)),
                                 KeywordItems(keywords, match_regex))]
             ELSE [raised |-> "None",
                   items |-> Extend(<<>>, KeywordItems(keywords, match_regex))]

(***************************************************************************)
(* The configured connections (.sql-ls/config.json) and the connections    *)
(* DBConnection builds from them.                                          *)
(***************************************************************************)
ConfigMain == [driver |-> "mysql", host |-> "db1", database |-> "shop"]

ConfigAlt == [driver |-> "mariadb", host |-> "db2", database |-> "crm"]

ConfigOther == [driver |-> "postgres", host |-> "db3", database |-> "shop"]

ServerConfig ==
    << [k |-> "main", v |-> ConfigMain], [k |-> "alt", v |-> ConfigAlt],
       [k |-> "pg", v |-> ConfigOther] >>

\* every connection a build that does not raise leaves behind
BuiltConnections(config) ==
    { DBConnection_init(config, b).conn :
        b \in { c \in BuildOutcomes : DBConnection_init(config, c).raised = "None" } }

(***************************************************************************)
(* The candidate aggregator applied to a document, a cursor and a          *)
(* connection.                                                             *)
(***************************************************************************)
InitCompletion ==
    /\ available_connections = ServerConfig
    /\ dbconn \in BuiltConnections(ConfigMain)
    /\ document \in CompletionDocuments
    /\ request = NoRequest
    /\ response = NoResponse
    /\ building = NotBuilding

Complete(pos) ==
    /\ request = NoRequest
    /\ request' = [op |-> "get_completion_candidates", pos |-> pos]
    /\ response' = get_completion_candidates(document, pos, dbconn)
    /\ UNCHANGED <<available_connections, dbconn, document, building>>

NextCompletion == \E pos \in Cursors(document) : Complete(pos)

SpecCompletion == InitCompletion /\ [][NextCompletion]_vars

(***************************************************************************)
(* What the completion request is about, for the statements about the      *)
(* candidate aggregator: the partial word, the resolved token, whether the *)
(* reference is qualified, the alias and the table it resolves to.         *)
(***************************************************************************)
Completed == request.op = "get_completion_candidates"

PartialWord ==
    TrailingWord(PySlice(document.lines[request.pos.line + 1], 0, request.pos.character))

AtPoint == get_segment_at_point(document.segments, request.pos)

TokenAt(i) == PyIndex(document.segments, i)

QualifiedColumn ==
    /\ AtPoint.raised = "None"
    /\ AtPoint.segment.parent = "column_reference"
    /\ AtPoint.index >= 2
    /\ \/ AtPoint.segment.raw = <<".">>
       \/ TokenAt(AtPoint.index - 1).raw = <<".">>

AliasToken ==
    IF AtPoint.segment.raw = <<".">>
    THEN TokenAt(AtPoint.index - 1)
    ELSE TokenAt(AtPoint.index - 2)

AliasElements ==
    { i \in 1..Len(document.from_elements) :
        document.from_elements[i].alias = AliasToken.raw }

AliasTable == _get_alias_table_name(AliasToken.raw, document.from_elements)

ItemsOfTier(tier) ==
    LET is_tier(item) == item.sort_text = tier IN SelectSeq(response.items, is_tier)

ItemSet(items) == { items[i] : i \in 1..Len(items) }

\* C1: in qualified Column mode with the alias resolved to a cached table T,
\* the column candidates are exactly the entries of table_column_map[T]
\* whose name matches the partial word.
C1_QualifiedColumnsOfTable ==
    (/\ Completed
     /\ PartialWord # <<>>
     /\ QualifiedColumn
     /\ AliasTable.raised = "None"
     /\ DictHas(dbconn.connector.table_column_map, AliasTable.table_name)) =>
        /\ response.raised = "None"
        /\ ItemSet(ItemsOfTier("0")) =
               ItemSet(ColumnItems(
                   DictValues(DictGet(dbconn.connector.table_column_map,
                                      AliasTable.table_name, <<>>)),
                   PartialWord))

\* C2: in qualified Column mode with an alias that no FROM-clause element
\* carries, or that resolves to a table the cache does not hold, no column
\* is offered and nothing is raised: only keywords are returned.
C2_UnresolvedAliasNoColumns ==
    (/\ Completed
     /\ PartialWord # <<>>
     /\ QualifiedColumn
     /\ \/ AliasElements = {}
        \/ /\ AliasTable.raised = "None"
           /\ ~DictHas(dbconn.connector.table_column_map, AliasTable.table_name)) =>
        /\ response.raised = "None"
        /\ \A item \in ItemSet(response.items) : item.kind = "Keyword"

\* C4: with no word character before the cursor the partial word matches
\* every name: nothing is raised and every keyword of the help cache is
\* among the candidates.
C4_EmptyPartialWordMatchesAll ==
    (Completed /\ PartialWord = <<>>) =>
        /\ response.raised = "None"
        /\ (AtPoint.raised = "None" /\ AtPoint.segment # NoSegment) =>
               \A i \in 1..Len(dbconn.connector.help_cache) :
                   KeywordItem(dbconn.connector.help_cache[i].k) \in ItemSet(response.items)

(***************************************************************************)
(* Statements about the order and the matching of the candidates.          *)
(***************************************************************************)
TierRank(sort_text) ==
    CASE sort_text = "0" -> 0
      [] sort_text = "1" -> 1
      [] sort_text = "99" -> 99

\* where a name was discovered in the cache its tier is read from
CacheKeys(sort_text) ==
    CASE sort_text = "0" -> DictKeys(dbconn.connector.column_cache)
      [] sort_text = "1" -> DictKeys(dbconn.connector.table_cache)
      [] sort_text = "99" -> DictKeys(dbconn.connector.help_cache)

Discovered(item) ==
    LET keys == CacheKeys(item.sort_text)
    IN  IF \E k \in 1..Len(keys) : keys[k] = item.label
        THEN CHOOSE k \in 1..Len(keys) : keys[k] = item.label
        ELSE 0

\* C12: the returned list is ordered by tier ascending (columns and tables
\* before keywords), and candidates of the same tier keep the order in which
\* the cache holds them.
C12_OrderedByTier ==
    (Completed /\ response.raised = "None") =>
        \A i, j \in 1..Len(response.items) :
            i < j =>
                /\ TierRank(response.items[i].sort_text) <= TierRank(response.items[j].sort_text)
                /\ Discovered(response.items[i]) > 0
                /\ response.items[i].sort_text = response.items[j].sort_text =>
                       Discovered(response.items[i]) < Discovered(response.items[j])

\* two columns and a keyword were returned
C12_Witness ==
    /\ Completed
    /\ response.raised = "None"
    /\ Len(ItemsOfTier("0")) >= 2
    /\ Len(ItemsOfTier("99")) >= 1

\* name starts with word, ignoring case
HasPrefix(name, word) ==
    /\ Len(word) <= Len(name)
    /\ str_lower(SubSeq(name, 1, Len(word))) = str_lower(word)

Mode == AtPoint.segment.parent

MatchingKeywords ==
    { KeywordItem(dbconn.connector.help_cache[i].k) :
        i \in { k \in 1..Len(dbconn.connector.help_cache) :
                  HasPrefix(dbconn.connector.help_cache[k].k, PartialWord) } }

MatchingTables ==
    { TableItem(dbconn.connector.table_cache[i].v) :
        i \in { k \in 1..Len(dbconn.connector.table_cache) :
                  HasPrefix(dbconn.connector.table_cache[k].k, PartialWord) } }

\* a token was resolved for a cursor that follows a partial word
ModeKnown ==
    /\ Completed
    /\ PartialWord # <<>>
    /\ AtPoint.raised = "None"
    /\ AtPoint.segment # NoSegment

\* C13: with a non-empty partial word, Table mode returns the matching
\* entries of table_cache (tier 1), the matching keys of help_cache (tier 99)
\* and no column; Bare mode returns exactly the matching keys of help_cache;
\* every mode that returns candidates returns every matching key of help_cache.
C13_CandidatesByMode ==
    ModeKnown =>
        /\ Mode = "table_reference" =>
               /\ response.raised = "None"
               /\ ItemSet(ItemsOfTier("1")) = MatchingTables
               /\ ItemsOfTier("0") = <<>>
               /\ ItemSet(ItemsOfTier("99")) = MatchingKeywords
        /\ Mode \notin {"table_reference", "column_reference"} =>
               /\ response.raised = "None"
               /\ ItemSet(response.items) = MatchingKeywords
        /\ response.raised = "None" => ItemSet(ItemsOfTier("99")) = MatchingKeywords

\* Table mode, where the partial word matches one cached table and not another
C13_Witness ==
    /\ ModeKnown
    /\ Mode = "table_reference"
    /\ MatchingTables # {}
    /\ Cardinality(MatchingTables) < Len(dbconn.connector.table_cache)
    /\ ItemSet(ItemsOfTier("1")) = MatchingTables

\* C14: matching is a case-insensitive prefix test: every candidate's name
\* starts with the partial word ignoring case, and every key of help_cache,
\* every table (Table mode) and every column (unqualified Column mode) whose
\* name starts with it is a candidate.
C14_PrefixMatching ==
    (ModeKnown /\ response.raised = "None") =>
        /\ \A item \in ItemSet(response.items) : HasPrefix(item.label, PartialWord)
        /\ MatchingKeywords \subseteq ItemSet(response.items)
        /\ Mode = "table_reference" => MatchingTables \subseteq ItemSet(response.items)
        /\ (Mode = "column_reference" /\ ~QualifiedColumn) =>
               \A i \in 1..Len(dbconn.connector.column_cache) :
                   HasPrefix(dbconn.connector.column_cache[i].k, PartialWord) =>
                       ColumnItem(dbconn.connector.column_cache[i].v) \in ItemSet(response.items)

\* the partial word "o": the table orders is a candidate, the keyword now,
\* which holds an o after its start, is not
C14_Witness ==
    /\ ModeKnown
    /\ response.raised = "None"
    /\ PartialWord = <<"o">>
    /\ \E item \in ItemSet(response.items) : item.label = orders
    /\ DictHas(dbconn.connector.help_cache, <<"n", "o", "w">>)
    /\ KeywordItem(<<"n", "o", "w">>) \notin ItemSet(response.items)

(***************************************************************************)
(* utils.py, get_query_statements and get_current_query_statement: the     *)
(* first statement whose lines hold the cursor's line.                     *)
(***************************************************************************)
NoStatement ==
    [start_line |-> 0, start_pos |-> 0, end_line |-> 0, end_pos |-> 0, raw |-> <<"None">>]

RECURSIVE StatementLoop(_, _, _)
StatementLoop(statements, cursor_position, i) ==
    IF i > Len(statements)
    THEN NoStatement
    ELSE LET start_line == statements[i].start_line
             end_line == statements[i].end_line
         IN  IF start_line <= cursor_position.line + 1 /\ cursor_position.line + 1 <= end_line
             THEN statements[i]
             ELSE StatementLoop(statements, cursor_position, i + 1)

get_current_query_statement(statements, cursor_position) ==
    StatementLoop(statements, cursor_position, 1)

(***************************************************************************)
(* utils.py, get_text_in_range.                                            *)
(***************************************************************************)
RECURSIVE Join(_)
Join(texts) ==
    IF texts = <<>> THEN <<>>
    ELSE IF Len(texts) = 1 THEN texts[1]
    ELSE texts[1] \o <<"\n">> \o Join(Tail(texts))

\* for i in range(first_line_index - 1, last_line_index): the lines appended
RECURSIVE RangeLoop(_, _, _, _)
RangeLoop(doc_lines, text_range, i, lines) ==
    LET first_line_index == text_range.start.line
        last_line_index == text_range.end.line
    IN  IF i >= last_line_index
        THEN [raised |-> "None", lines |-> lines]
        ELSE IF i = first_line_index
        THEN IF ~PyInRange(doc_lines, i)
             THEN [raised |-> "IndexError", lines |-> lines]
             ELSE RangeLoop(doc_lines, text_range, i + 1,
                      Append(lines, PySlice(PyIndex(doc_lines, i),
                                            text_range.start.character,
                                            Len(PyIndex(doc_lines, i)))))
        ELSE IF i < Len(doc_lines) - 1
        THEN IF ~PyInRange(doc_lines, i)
             THEN [raised |-> "IndexError", lines |-> lines]
             ELSE RangeLoop(doc_lines, text_range, i + 1, Append(lines, PyIndex(doc_lines, i)))
        ELSE RangeLoop(doc_lines, text_range, i + 1, lines)

get_text_in_range(doc_lines, text_range) ==
    LET first_line_index == text_range.start.line
        first_char_index == text_range.start.character
        last_line_index == text_range.end.line
        last_char_index == text_range.end.character
        looped == RangeLoop(doc_lines, text_range, first_line_index - 1, <<>>)
    IN  IF first_line_index = last_line_index
        THEN IF first_char_index = last_char_index
             THEN [raised |-> "None", text |-> Join(doc_lines)]
             ELSE IF ~PyInRange(doc_lines, first_line_index)
             THEN [raised |-> "IndexError", text |-> <<>>]
             ELSE [raised |-> "None",
                   text |-> PySlice(doc_lines[first_line_index + 1],
                                    first_char_index, last_char_index)]
        ELSE [raised |-> looped.raised, text |-> Join(looped.lines)]

(***************************************************************************)
(* The documents of the server runs.                                       *)
(***************************************************************************)
lit_1 == Tok(<<"1">>, "other")

lit_2 == Tok(<<"2">>, "other")

semicolon == Tok(<<";">>, "other")

\* select 1; select 2;
TwoStatementsOneLine ==
    MakeDocument(
        << << kw_select, ws, lit_1, semicolon, ws, kw_select, ws, lit_2, semicolon >> >>,
        <<>>,
        << <<0, 2>>, <<5, 7>> >>)

\* select 1;  /  (an empty line)  /  select 2;
TwoStatementsApart ==
    MakeDocument(
        << << kw_select, ws, lit_1, semicolon >>, << >>,
           << kw_select, ws, lit_2, semicolon >> >>,
        <<>>,
        << <<0, 2>>, <<6, 8>> >>)

\* select  /  1; select 2;
StatementAcrossLines ==
    MakeDocument(
        << << kw_select >>, << lit_1, semicolon, ws, kw_select, ws, lit_2, semicolon >> >>,
        <<>>,
        << <<0, 2>>, <<5, 7>> >>)

ServerDocuments ==
    { TwoStatementsOneLine, TwoStatementsApart, StatementAcrossLines, TableDocument(<<"u">>) }

\* the ends of the ranges a code action carries: the start and the end of a line
RangeEnds(doc) ==
    { pos \in Cursors(doc) : pos.character \in {0, LineLength(doc, pos.line)} }

Ranges(doc) ==
    { r \in [start : RangeEnds(doc), end : RangeEnds(doc)] :
        \/ r.start.line < r.end.line
        \/ r.start.line = r.end.line /\ r.start.character <= r.end.character }

\* the words of a document, for hover
Words(doc) ==
    { doc.segments[i].raw : i \in { j \in 1..Len(doc.segments) :
          /\ doc.segments[j].raw # <<>>
          /\ \A c \in 1..Len(doc.segments[j].raw) : IsWordChar(doc.segments[j].raw[c]) } }

(***************************************************************************)
(* server.py: the handlers.  A handler's response is [raised, value]; the  *)
(* value tells its kind ("table", "error", "empty", "help"), the query     *)
(* that ran, the rows tabulated, the error rendered and the help text.     *)
(***************************************************************************)
NoValue == [kind |-> "None", query |-> <<>>, rows |-> <<>>, error |-> "None", text |-> ""]

Init ==
    /\ available_connections = <<>>
    /\ dbconn = NoConnection
    /\ document \in ServerDocuments
    /\ request = NoRequest
    /\ response = NoResponse
    /\ building = NotBuilding

\* SqlLanguageServerProtocol.lsp_initialize
lsp_initialize(config_file, build) ==
    /\ request = NoRequest
    /\ request' = [op |-> "initialize", config_file |-> config_file, build |-> build]
    /\ IF config_file = "missing"
       THEN /\ response' = [raised |-> "None", value |-> NoValue]
            /\ UNCHANGED <<available_connections, dbconn>>
       ELSE LET made == DBConnection_init(DictValues(ServerConfig)[1], build)
            IN  /\ available_connections' = ServerConfig
                /\ IF made.raised # "None"
                   THEN /\ response' = [raised |-> made.raised, value |-> NoValue]
                        /\ UNCHANGED dbconn
                   ELSE /\ response' = [raised |-> "None", value |-> NoValue]
                        /\ dbconn' = made.conn
    /\ UNCHANGED <<document, building>>

\* did_change: the workspace holds the new text
did_change(doc) ==
    /\ request # NoRequest
    /\ request' = [op |-> "didChange"]
    /\ response' = [raised |-> "None", value |-> NoValue]
    /\ document' = doc
    /\ UNCHANGED <<available_connections, dbconn, building>>

\* completions
completions(pos) ==
    /\ request # NoRequest
    /\ request' = [op |-> "completion", pos |-> pos]
    /\ response' = get_completion_candidates(document, pos, dbconn)
    /\ UNCHANGED <<available_connections, dbconn, document, building>>

\* hover
hover(word) ==
    /\ request # NoRequest
    /\ request' = [op |-> "hover", word |-> word]
    /\ response' =
           IF dbconn = NoConnection
           THEN [raised |-> "AttributeError", value |-> NoValue]
           ELSE [raised |-> "None",
                 value |-> [NoValue EXCEPT !.kind = "help",
                                           !.text = DBConnection_get_help(dbconn, word)]]
    /\ UNCHANGED <<available_connections, dbconn, document, building>>

\* rows, error = ls.lsp.dbconn.execute_query(query), and what executeQuery
\* and explainQuery return for it
RunAndRender(query, outcome) ==
    LET ran == DBConnection_execute_query(StatementRows(query), outcome)
    IN  IF ran.raised # "None"
        THEN [raised |-> ran.raised, value |-> [NoValue EXCEPT !.query = query]]
        ELSE IF ran.error # "None"
        THEN [raised |-> "None",
              value |-> [NoValue EXCEPT !.kind = "error", !.query = query,
                                        !.error = ran.error]]
        ELSE [raised |-> "None",
              value |-> [NoValue EXCEPT !.kind = "table", !.query = query,
                                        !.rows = ran.rows]]

\* what showDatabases and showTables return: e is not bound in them
RunAndFormat(query, outcome) ==
    LET ran == DBConnection_execute_query(StatementRows(query), outcome)
    IN  IF ran.raised # "None"
        THEN [raised |-> ran.raised, value |-> [NoValue EXCEPT !.query = query]]
        ELSE IF ran.error # "None"
        THEN [raised |-> "NameError", value |-> [NoValue EXCEPT !.query = query]]
        ELSE [raised |-> "None",
              value |-> [NoValue EXCEPT !.kind = "table", !.query = query,
                                        !.rows = ran.rows]]

\* executeQuery
execute_query(cursor_position, outcome) ==
    /\ request # NoRequest
    /\ request' = [op |-> "executeQuery", pos |-> cursor_position, outcome |-> outcome]
    /\ response' =
           IF dbconn = NoConnection
           THEN [raised |-> "KeyError", value |-> NoValue]
           ELSE LET current_statement ==
                        get_current_query_statement(document.statements, cursor_position)
                IN  IF current_statement = NoStatement
                    THEN [raised |-> "None", value |-> [NoValue EXCEPT !.kind = "empty"]]
                    ELSE RunAndRender(current_statement.raw, outcome)
    /\ UNCHANGED <<available_connections, dbconn, document, building>>

\* explainQuery
explain_query(text_range, outcome) ==
    /\ request # NoRequest
    /\ request' = [op |-> "explainQuery", range |-> text_range, outcome |-> outcome]
    /\ response' =
           IF dbconn = NoConnection
           THEN [raised |-> "KeyError", value |-> NoValue]
           ELSE LET text == get_text_in_range(document.lines, text_range)
                IN  IF text.raised # "None"
                    THEN [raised |-> text.raised, value |-> NoValue]
                    ELSE RunAndRender(<<"explain ">> \o text.text, outcome)
    /\ UNCHANGED <<available_connections, dbconn, document, building>>

\* showDatabases
show_databases(outcome) ==
    /\ request # NoRequest
    /\ request' = [op |-> "showDatabases", outcome |-> outcome]
    /\ response' =
           IF dbconn = NoConnection
           THEN [raised |-> "KeyError", value |-> NoValue]
           ELSE RunAndFormat(<<"show databases;">>, outcome)
    /\ UNCHANGED <<available_connections, dbconn, document, building>>

\* showTables
show_tables(outcome) ==
    /\ request # NoRequest
    /\ request' = [op |-> "showTables", outcome |-> outcome]
    /\ response' =
           IF dbconn = NoConnection
           THEN [raised |-> "KeyError", value |-> NoValue]
           ELSE RunAndFormat(<<"show tables;">>, outcome)
    /\ UNCHANGED <<available_connections, dbconn, document, building>>

\* switchConnections
switch_connections(selected_alias, build) ==
    /\ request # NoRequest
    /\ request' = [op |-> "switchConnections", alias |-> selected_alias, build |-> build]
    /\ IF ~DictHas(available_connections, selected_alias)
       THEN /\ response' = [raised |-> "KeyError", value |-> NoValue]
            /\ UNCHANGED dbconn
       ELSE LET selected_config == DictGet(available_connections, selected_alias, <<>>)
                made == DBConnection_init(selected_config, build)
            IN  IF made.raised # "None"
                THEN /\ response' = [raised |-> made.raised, value |-> NoValue]
                     /\ UNCHANGED dbconn
                ELSE /\ response' = [raised |-> "None", value |-> NoValue]
                     /\ dbconn' = made.conn
    /\ UNCHANGED <<available_connections, document, building>>

Aliases == {"main", "alt", "pg", "none"}

Next ==
    \/ \E config_file \in {"missing", "found"}, build \in BuildOutcomes :
           /\ config_file = "missing" => build = BuildOk
           /\ lsp_initialize(config_file, build)
    \/ \E doc \in ServerDocuments : did_change(doc)
    \/ \E pos \in Cursors(document) : completions(pos)
    \/ \E word \in Words(document) : hover(word)
    \/ \E pos \in Cursors(document), outcome \in QueryOutcomes : execute_query(pos, outcome)
    \/ \E text_range \in Ranges(document), outcome \in QueryOutcomes :
           explain_query(text_range, outcome)
    \/ \E outcome \in QueryOutcomes : show_databases(outcome)
    \/ \E outcome \in QueryOutcomes : show_tables(outcome)
    \/ \E selected_alias \in Aliases, build \in BuildOutcomes :
           /\ selected_alias \notin {"main", "alt"} => build = BuildOk
           /\ switch_connections(selected_alias, build)

Spec == Init /\ [][Next]_vars

(***************************************************************************)
(* Statements about the server's handlers.                                 *)
(***************************************************************************)
\* the statements whose span, by line and column, holds the cursor
StatementsAtCursor ==
    { i \in 1..Len(document.statements) :
        LET st == document.statements[i]
            line == request.pos.line + 1
            col == request.pos.character + 1
        IN  /\ st.start_line < line \/ (st.start_line = line /\ st.start_pos <= col)
            /\ line < st.end_line \/ (line = st.end_line /\ col <= st.end_pos + 1) }

\* C8: with several statements in the document and the cursor inside a later
\* one, executeQuery runs the statement that holds the cursor.
C8_StatementUnderCursor ==
    (/\ request.op = "executeQuery"
     /\ dbconn # NoConnection
     /\ Len(document.statements) >= 2) =>
        \A i \in StatementsAtCursor :
            response.value.query = document.statements[i].raw

\* the cache build at initialization failed: connections are configured and
\* none is active
BuildFailedAtInitialize == available_connections # <<>> /\ dbconn = NoConnection

\* C9: with the database unreachable when the cache is built at
\* initialization, lsp_initialize does not raise, and every later completion
\* request returns, without raising, keyword candidates only.
C9_KeywordOnlyWithoutDatabase ==
    /\ (/\ request.op = "initialize"
        /\ request.config_file = "found"
        /\ ~request.build.connect_ok) => response.raised = "None"
    /\ (request.op = "completion" /\ BuildFailedAtInitialize) =>
           /\ response.raised = "None"
           /\ \A item \in ItemSet(response.items) : item.kind = "Keyword"

\* C10: a command that ran a query which failed returns a string describing
\* the failure and raises nothing, also when the reconnect after the failure
\* fails.
C10_FailureReturnedAsText ==
    (/\ request.op \in {"executeQuery", "explainQuery", "showDatabases", "showTables"}
     /\ response.value.query # <<>>
     /\ request.outcome.failed_after # -1) =>
        /\ response.raised = "None"
        /\ response.value.kind = "error"

(***************************************************************************)
(* Statements about the cache a build leaves behind.  The catalog of a     *)
(* host is what INFORMATION_SCHEMA.COLUMNS lists.                          *)
(***************************************************************************)
CatalogTables(host) ==
    { InformationSchemaColumns(host)[i].TABLE_NAME :
        i \in 1..Len(InformationSchemaColumns(host)) }

CatalogColumns(host, table) ==
    { InformationSchemaColumns(host)[i].COLUMN_NAME :
        i \in { k \in 1..Len(InformationSchemaColumns(host)) :
                  InformationSchemaColumns(host)[k].TABLE_NAME = table } }

\* C17: after generate_caches ran against a catalog, table_column_map holds
\* for every table of the catalog exactly the column names the catalog lists
\* for it, and holds no other table.
C17_ColumnsByTableRoundTrip ==
    dbconn # NoConnection =>
        LET map == dbconn.connector.table_column_map
            host == dbconn.config.host
        IN  /\ \A table \in CatalogTables(host) :
                   /\ DictHas(map, table)
                   /\ ItemSet(DictKeys(DictGet(map, table, <<>>))) = CatalogColumns(host, table)
            /\ \A i \in 1..Len(map) : map[i].k \in CatalogTables(host)

\* the connection was opened and the keyword-help read or the table
\* enumeration of the build of this request failed
FirstReadsFailed ==
    /\ \/ request.op = "initialize" /\ request.config_file = "found"
       \/ request.op = "switchConnections" /\ request.alias \in {"main", "alt"}
    /\ request.build.connect_ok
    /\ ~request.build.help_ok \/ request.build.tables.failed_after # -1

\* C18: when the keyword-help read or the table enumeration fails, the
\* construction of the cache fails as a whole: the constructor raises and no
\* cache of that build becomes the active one.
C18_FailedReadIsFatal ==
    FirstReadsFailed =>
        /\ response.raised # "None"
        /\ request.op = "initialize" => dbconn = NoConnection

(***************************************************************************)
(* MySQLConnector.execute_query applied to a query and to the way the      *)
(* query ends: the two INFORMATION_SCHEMA queries of the cache build, the  *)
(* queries of showDatabases and showTables, and the statements of the      *)
(* document.                                                               *)
(***************************************************************************)
table_query ==
    <<"SELECT TABLE_SCHEMA, TABLE_NAME, COLUMN_NAME, ... FROM INFORMATION_SCHEMA.COLUMNS ORDER BY ...">>

all_columns_query ==
    <<"SELECT TABLE_SCHEMA, TABLE_NAME, COLUMN_NAME, ... FROM INFORMATION_SCHEMA.COLUMNS">>

\* the rows the cursor of a query yields when nothing fails
ResultRows(host, query) ==
    IF query \in {table_query, all_columns_query}
    THEN InformationSchemaColumns(host)
    ELSE StatementRows(query)

Queries(doc) ==
    {table_query, all_columns_query, <<"show databases;">>, <<"show tables;">>}
        \cup { doc.statements[i].raw : i \in 1..Len(doc.statements) }

InitQuery ==
    /\ available_connections = ServerConfig
    /\ dbconn \in BuiltConnections(ConfigMain) \cup BuiltConnections(ConfigAlt)
    /\ document \in ServerDocuments
    /\ request = NoRequest
    /\ response = NoResponse
    /\ building = NotBuilding

RunQuery(query, outcome) ==
    /\ request = NoRequest
    /\ request' = [op |-> "execute_query", query |-> query, outcome |-> outcome]
    /\ response' =
           MySQLConnector_execute_query(ResultRows(dbconn.config.host, query), outcome)
    /\ UNCHANGED <<available_connections, dbconn, document, building>>

NextQuery == \E query \in Queries(document), outcome \in QueryOutcomes : RunQuery(query, outcome)

SpecQuery == InitQuery /\ [][NextQuery]_vars

\* C11: when a query fails after rows were consumed, execute_query returns
\* no row of the failed attempt: whenever the returned error is not None the
\* returned rows are empty.
C11_NoRowsWithError ==
    (/\ request.op = "execute_query"
     /\ response.raised = "None"
     /\ response.error # "None") => response.rows = <<>>

(***************************************************************************)
(* The construction of a connection, step by step.  lsp_initialize and     *)
(* switchConnections call DBConnection(config); MySQLConnector.__init__    *)
(* opens the connection, sets the four caches to empty and runs            *)
(* generate_caches, which performs the three reads one after the other;    *)
(* the handler assigns the object to dbconn when the constructor has       *)
(* returned.  building.pc is where the constructor stands.  The server     *)
(* runs one handler at a time (no handler is threaded or awaits), so no    *)
(* other request is answered while a handler is building.                  *)
(***************************************************************************)
Idle == building.pc = "idle"

Raise(name) ==
    /\ response' = [raised |-> name, value |-> NoValue]
    /\ building' = NotBuilding

\* lsp_initialize, up to the call of DBConnection
lsp_initialize_begin(config_file) ==
    /\ request = NoRequest
    /\ Idle
    /\ request' = [op |-> "initialize", config_file |-> config_file]
    /\ IF config_file = "missing"
       THEN /\ response' = [raised |-> "None", value |-> NoValue]
            /\ UNCHANGED <<available_connections, building>>
       ELSE /\ available_connections' = ServerConfig
            /\ response' = NoResponse
            /\ building' = [pc |-> "driver", config |-> DictValues(ServerConfig)[1],
                            connector |-> NoConnector]
    /\ UNCHANGED <<dbconn, document>>

\* switchConnections that clears the active connection before it builds
switch_connections_begin_cleared(selected_alias) ==
    /\ request # NoRequest
    /\ Idle
    /\ request' = [op |-> "switchConnections", alias |-> selected_alias]
    /\ IF ~DictHas(available_connections, selected_alias)
       THEN /\ response' = [raised |-> "KeyError", value |-> NoValue]
            /\ UNCHANGED <<building, dbconn>>
       ELSE /\ response' = NoResponse
            /\ dbconn' = NoConnection
            /\ building' = [pc |-> "driver",
                            config |-> DictGet(available_connections, selected_alias, <<>>),
                            connector |-> NoConnector]
    /\ UNCHANGED <<available_connections, document>>

\* switchConnections, up to the call of DBConnection
switch_connections_begin(selected_alias) ==
    /\ request # NoRequest
    /\ Idle
    /\ request' = [op |-> "switchConnections", alias |-> selected_alias]
    /\ IF ~DictHas(available_connections, selected_alias)
       THEN /\ response' = [raised |-> "KeyError", value |-> NoValue]
            /\ UNCHANGED building
       ELSE /\ response' = NoResponse
            /\ building' = [pc |-> "driver",
                            config |-> DictGet(available_connections, selected_alias, <<>>),
                            connector |-> NoConnector]
    /\ UNCHANGED <<available_connections, dbconn, document>>

\* DBConnection.__init__: match config["driver"]
DBConnection_match_driver ==
    /\ building.pc = "driver"
    /\ IF building.config.driver \in {"mysql", "mariadb"}
       THEN /\ building' = [building EXCEPT !.pc = "connect"]
            /\ UNCHANGED response
       ELSE Raise("ValueError")
    /\ UNCHANGED <<available_connections, dbconn, document, request>>

\* a constructor that hands the object to dbconn before its caches are read
MySQLConnector_connect_published(connect_ok) ==
    /\ building.pc = "connect"
    /\ IF connect_ok
       THEN /\ building' = [building EXCEPT !.pc = "help", !.connector = NoConnector]
            /\ dbconn' = [config |-> building.config, connector |-> NoConnector]
            /\ UNCHANGED response
       ELSE Raise("DatabaseError") /\ UNCHANGED dbconn
    /\ UNCHANGED <<available_connections, document, request>>

\* MySQLConnector.__init__: mysql.connector.connect and the empty caches
MySQLConnector_connect(connect_ok) ==
    /\ building.pc = "connect"
    /\ IF connect_ok
       THEN /\ building' = [building EXCEPT !.pc = "help", !.connector = NoConnector]
            /\ UNCHANGED response
       ELSE Raise("DatabaseError")
    /\ UNCHANGED <<available_connections, dbconn, document, request>>

\* generate_caches: self._get_help_documentation()
generate_caches_help(help_ok) ==
    /\ building.pc = "help"
    /\ IF help_ok
       THEN /\ building' =
                   [building EXCEPT !.pc = "tables",
                        !.connector.help_cache = _get_help_documentation(building.config.host)]
            /\ UNCHANGED response
       ELSE Raise("DatabaseError")
    /\ UNCHANGED <<available_connections, dbconn, document, request>>

\* generate_caches: self._get_schema_tables()
generate_caches_tables(outcome) ==
    /\ building.pc = "tables"
    /\ LET result == MySQLConnector_execute_query(
                         InformationSchemaColumns(building.config.host), outcome)
       IN  IF result.raised = "None"
           THEN /\ building' =
                       [building EXCEPT !.pc = "columns",
                            !.connector.table_cache = _get_schema_tables(result)]
                /\ UNCHANGED response
           ELSE Raise(result.raised)
    /\ UNCHANGED <<available_connections, dbconn, document, request>>

\* generate_caches: self._get_all_columns()
generate_caches_columns(outcome) ==
    /\ building.pc = "columns"
    /\ LET result == MySQLConnector_execute_query(
                         InformationSchemaColumns(building.config.host), outcome)
       IN  IF result.raised = "None"
           THEN /\ building' =
                       [building EXCEPT !.pc = "built",
                            !.connector.column_cache = _get_all_columns(result).column_cache,
                            !.connector.table_column_map =
                                _get_all_columns(result).table_column_map]
                /\ UNCHANGED response
           ELSE Raise(result.raised)
    /\ UNCHANGED <<available_connections, dbconn, document, request>>

\* dict.update
RECURSIVE DictUpdate(_, _)
DictUpdate(d, e) ==
    IF e = <<>> THEN d ELSE DictUpdate(DictSet(d, Head(e).k, Head(e).v), Tail(e))

\* an assignment that merges the new caches into the ones of the active connection
DBConnection_assign_merged ==
    /\ building.pc = "built"
    /\ dbconn' =
           [config |-> building.config,
            connector |->
                [help_cache |->
                     DictUpdate(dbconn.connector.help_cache, building.connector.help_cache),
                 table_cache |->
                     DictUpdate(dbconn.connector.table_cache, building.connector.table_cache),
                 table_column_map |->
                     DictUpdate(dbconn.connector.table_column_map,
                                building.connector.table_column_map),
                 column_cache |->
                     DictUpdate(dbconn.connector.column_cache,
                                building.connector.column_cache)]]
    /\ response' = [raised |-> "None", value |-> NoValue]
    /\ building' = NotBuilding
    /\ UNCHANGED <<available_connections, document, request>>

\* self.dbconn = DBConnection(...) / ls.lsp.dbconn = DBConnection(...): the
\* constructor has returned, the handler assigns and returns
DBConnection_assign ==
    /\ building.pc = "built"
    /\ dbconn' = [config |-> building.config, connector |-> building.connector]
    /\ response' = [raised |-> "None", value |-> NoValue]
    /\ building' = NotBuilding
    /\ UNCHANGED <<available_connections, document, request>>

BuildDocuments == { TableDocument(<<"u">>), BareDocument(<<"N">>) }

InitBuild ==
    /\ available_connections = <<>>
    /\ dbconn = NoConnection
    /\ document \in BuildDocuments
    /\ request = NoRequest
    /\ response = NoResponse
    /\ building = NotBuilding

NextBuild ==
    \/ \E config_file \in {"missing", "found"} : lsp_initialize_begin(config_file)
    \/ \E selected_alias \in Aliases : switch_connections_begin(selected_alias)
    \/ DBConnection_match_driver
    \/ \E connect_ok \in BOOLEAN : MySQLConnector_connect(connect_ok)
    \/ \E help_ok \in BOOLEAN : generate_caches_help(help_ok)
    \/ \E outcome \in QueryOutcomes : generate_caches_tables(outcome)
    \/ \E outcome \in QueryOutcomes : generate_caches_columns(outcome)
    \/ DBConnection_assign
    \/ Idle /\ \E doc \in BuildDocuments : did_change(doc)
    \/ Idle /\ \E pos \in Cursors(document) : completions(pos)
    \/ Idle /\ \E word \in Words(document) : hover(word)
    \/ Idle /\ \E pos \in Cursors(document), outcome \in QueryOutcomes :
                   execute_query(pos, outcome)
    \/ Idle /\ \E text_range \in Ranges(document), outcome \in QueryOutcomes :
                   explain_query(text_range, outcome)
    \/ Idle /\ \E outcome \in QueryOutcomes : show_databases(outcome)
    \/ Idle /\ \E outcome \in QueryOutcomes : show_tables(outcome)

SpecBuild == InitBuild /\ [][NextBuild]_vars

\* every connection the steps leave active is one a whole build returns
BuildsAgree ==
    dbconn \in {NoConnection} \cup BuiltConnections(ConfigMain) \cup BuiltConnections(ConfigAlt)

(***************************************************************************)
(* Statements about the active connection across requests.                 *)
(***************************************************************************)
\* every entry of the caches of conn was read from the server of conn
FreshCache(conn) ==
    LET host == conn.config.host
        c == conn.connector
    IN  /\ \A i \in 1..Len(c.help_cache) :
               \E j \in 1..Len(HelpTopics(host)) :
                   /\ c.help_cache[i].k = str_lower(HelpTopics(host)[j].NAME)
                   /\ c.help_cache[i].v = HelpTopics(host)[j].DESCRIPTION
        /\ \A i \in 1..Len(c.table_cache) :
               /\ c.table_cache[i].k \in CatalogTables(host)
               /\ ItemSet(c.table_cache[i].v.description)
                      \subseteq CatalogColumns(host, c.table_cache[i].k)
        /\ \A i \in 1..Len(c.table_column_map) :
               /\ c.table_column_map[i].k \in CatalogTables(host)
               /\ ItemSet(DictKeys(c.table_column_map[i].v))
                      \subseteq CatalogColumns(host, c.table_column_map[i].k)
        /\ \A i \in 1..Len(c.column_cache) :
               /\ c.column_cache[i].v.table_name \in CatalogTables(host)
               /\ c.column_cache[i].k
                      \in CatalogColumns(host, c.column_cache[i].v.table_name)

\* the configuration the request being answered selects
RequestedConfig ==
    IF request.op = "initialize"
    THEN DictValues(available_connections)[1]
    ELSE DictGet(available_connections, request.alias, NoConnection.config)

\* C15: the active cache changes only while initialize or switchConnections
\* is answered, and then it becomes a cache of the selected connection that
\* holds only entries read from that connection, none of the cache before;
\* completion, hover and the commands that run queries leave it unchanged.
C15_CacheReplacedWholesale ==
    [][dbconn' # dbconn =>
           /\ request.op \in {"initialize", "switchConnections"}
           /\ request' = request
           /\ dbconn'.config = RequestedConfig
           /\ FreshCache(dbconn')]_vars

\* switchConnections replaced a cache by the cache of the other server
C15_Witness ==
    /\ Idle
    /\ request.op = "switchConnections"
    /\ request.alias = "alt"
    /\ response = [raised |-> "None", value |-> NoValue]
    /\ dbconn.config = ConfigAlt
    /\ DictKeys(dbconn.connector.table_cache) = <<leads>>
    /\ DictKeys(dbconn.connector.column_cache) = <<col_id, col_note>>

\* C16: no request reads a cache whose build is in progress: dbconn only ever
\* becomes a connection whose three reads have finished, the connection
\* active before stays until then, and while a connection is built no other
\* request is answered.
C16_NoPartialCacheExposed ==
    [][/\ dbconn' # dbconn =>
              /\ building.pc = "built"
              /\ dbconn' = [config |-> building.config, connector |-> building.connector]
       /\ ~Idle => request' = request]_vars

\* switchConnections has read the help and the tables of the new connection,
\* and the connection built before is still the active one
C16_Witness ==
    /\ request.op = "switchConnections"
    /\ building.pc = "columns"
    /\ building.config = ConfigAlt
    /\ building.connector.table_cache # <<>>
    /\ dbconn.config = ConfigMain
    /\ dbconn.connector.table_cache # <<>>
    /\ dbconn.connector.column_cache # <<>>

\* C20: a switchConnections that fails, for an alias that is not configured
\* or because the construction raises, leaves the active connection and its
\* cache as they were: no step of it but the assignment after a construction
\* that returned changes dbconn.
C20_FailedSwitchLeavesConnection ==
    [][(/\ request'.op = "switchConnections"
        /\ response'.raised # "None" \/ ~Idle') => dbconn' = dbconn]_vars

\* a switchConnections whose construction raised, with a built connection active
C20_Witness ==
    /\ Idle
    /\ request.op = "switchConnections"
    /\ request.alias = "alt"
    /\ response.raised \in {"DatabaseError", "InterfaceError"}
    /\ dbconn.config = ConfigMain
    /\ dbconn.connector.table_cache # <<>>

(***************************************************************************)
(* get_text_in_range applied to a document and a range of it, as           *)
(* explainQuery applies it to the range of the code action.                *)
(***************************************************************************)
\* the ranges of a document: a start that is not after the end
AllRanges(doc) ==
    { r \in [start : Cursors(doc), end : Cursors(doc)] :
        \/ r.start.line < r.end.line
        \/ r.start.line = r.end.line /\ r.start.character <= r.end.character }

InitRange ==
    /\ available_connections = <<>>
    /\ dbconn = NoConnection
    /\ document \in ServerDocuments
    /\ request = NoRequest
    /\ response = NoResponse
    /\ building = NotBuilding

TextInRange(text_range) ==
    /\ request = NoRequest
    /\ request' = [op |-> "get_text_in_range", range |-> text_range]
    /\ response' = get_text_in_range(document.lines, text_range)
    /\ UNCHANGED <<available_connections, dbconn, document, building>>

NextRange == \E text_range \in AllRanges(document) : TextInRange(text_range)

SpecRange == InitRange /\ [][NextRange]_vars

\* the pieces of the range of the request: the first line from the start
\* character, the lines strictly between, the last line up to the end character
RangePieces ==
    LET a == request.range.start.line
        b == request.range.end.line
        first == PySlice(document.lines[a + 1], request.range.start.character,
                         Len(document.lines[a + 1]))
        between == [k \in 1..(b - a - 1) |-> document.lines[a + k + 1]]
        last == PySlice(document.lines[b + 1], 0, request.range.end.character)
    IN  <<first>> \o between \o <<last>>

\* C21: for a range whose start line is before its end line, the text is the
\* start line from the start character, every line strictly between, and the
\* end line up to the end character (joined as the lines are, or by "\n"),
\* and nothing of a line before the start or after the end.
C21_TextOfMultiLineRange ==
    (/\ request.op = "get_text_in_range"
     /\ request.range.start.line < request.range.end.line) =>
        /\ response.raised = "None"
        /\ response.text \in {Concat(RangePieces), Join(RangePieces)}

=============================================================================
